---------------------------- MODULE Spec2Model ----------------------------
(***************************************************************************)
(* Food Image Enhancer front end (Haterona/swaga4).                        *)
(*                                                                         *)
(* The repository holds three versions of the same page script:            *)
(*   "textOnly"   src/app.js                 one SDXL endpoint, the error  *)
(*                                           text of the failure is shown  *)
(*   "threeModel" src/unnamed/part_000:1-383 one endpoint per edit mode    *)
(*   "promptMap"  src/unnamed/part_000:386-586 one SDXL endpoint, prompt   *)
(*                                           built from a lookup table     *)
(* The variable script says which of them the page has loaded.             *)
(*                                                                         *)
(* Text is modelled as a sequence of tokens: a fixed literal of the source *)
(* is one token, and every character of a user or server supplied string   *)
(* (API key, error detail) is one token, so that trim, slice, indexOf and  *)
(* concatenation are computed as the code computes them.                   *)
(***************************************************************************)
EXTENDS Integers, Sequences, FiniteSets, TLC

\* ---------------------------------------------------------------- bounds
MaxKeyLen == 2      \* longest API key typed into the form
MaxLen == 3         \* longest segmentation array a response carries
MaxScore == 2       \* scores are 0..MaxScore
MaxOver == 1        \* detail lengths lie within MaxOver of a truncation bound
MaxHandlers == 2    \* cap on handler invocations suspended at the same time

\* ------------------------------------------------------ program constants
StyleDetailBound == 160         \* callStyleGeneration
BackgroundDetailBound == 160    \* callBackgroundRemoval
QualityDetailBound == 160       \* callQualityImprovement
PromptMapDetailBound == 160     \* generateImage, part_000
TextOnlyDetailBound == 300      \* generateImage, app.js

\* ------------------------------------------------------------- optionals
None == <<>>
Some(x) == <<x>>
IsSome(o) == o # <<>>
The(o) == o[1]

\* ------------------------------------------------------------ token text
Ellipsis == "..."     \* stands for the one character U+2026 of the source

IsSpace(c) == c = " "

RECURSIVE trimStart(_)
trimStart(s) == IF s # <<>> /\ IsSpace(Head(s)) THEN trimStart(Tail(s)) ELSE s

RECURSIVE trimEnd(_)
trimEnd(s) ==
    IF s # <<>> /\ IsSpace(s[Len(s)]) THEN trimEnd(SubSeq(s, 1, Len(s) - 1)) ELSE s

\* String.prototype.trim
trim(s) == trimEnd(trimStart(s))

\* String.prototype.indexOf, 1-based; 0 when the token does not occur
indexOf(s, c) ==
    IF \E i \in 1..Len(s) : s[i] = c
    THEN CHOOSE i \in 1..Len(s) : s[i] = c /\ \A j \in 1..(i - 1) : s[j] # c
    ELSE 0

\* s.slice(0, n)
sliceTo(s, n) == SubSeq(s, 1, IF n < Len(s) THEN n ELSE Len(s))

\* s.slice(n) for a 1-based first kept position
sliceFrom(s, n) == SubSeq(s, n, Len(s))

\* t occurs in s as a contiguous run of tokens
Contains(s, t) ==
    \E i \in 0..(Len(s) - Len(t)) : SubSeq(s, i + 1, i + Len(t)) = t

\* ---------------------------------------------------------- input domains
Scripts == {"textOnly", "threeModel", "promptMap"}

KeyChars == {" ", "k"}
Keys == UNION {[1..n -> KeyChars] : n \in 0..MaxKeyLen}

Foods == {"Pizza", "Sushi"}

\* the three options of the page and a value the select does not offer
EditTypes == {"Style", "Background cleaning", "Quality improvement", "Sepia"}

\* a file whose type the browser could not tell, and a PNG
Files == {[type |-> "", bytes |-> "AAAA"], [type |-> "image/png", bytes |-> "BBBB"]}
Photos == {None} \cup {Some(f) : f \in Files}

Labels == {"Create Image", "Generate"}

\* ------------------------------------------------------------- endpoints
HF_ENDPOINTS ==
    [style |-> "https://router.huggingface.co/hf-inference/models/stabilityai/stable-diffusion-xl-base-1.0",
     background |-> "https://router.huggingface.co/hf-inference/models/briaai/RMBG-2.0",
     quality |-> "https://router.huggingface.co/hf-inference/models/ai-forever/Real-ESRGAN"]

HF_ENDPOINT ==
    "https://router.huggingface.co/hf-inference/models/stabilityai/stable-diffusion-xl-base-1.0"

\* --------------------------------------------------------------- prompts
PromptBase ==
    " hero shot, ultra realistic, commercial food photography, shot on a dark matte table, shallow depth of field, cinematic lighting"

\* buildPrompt of app.js and of the three-model script (same text in both)
buildPromptBranches(food, editType) ==
    <<food, PromptBase>> \o
    ( IF editType = "Background cleaning"
      THEN <<", isolated on a clean soft gradient background, no clutter, product catalog look, web shop ready">>
      ELSE IF editType = "Quality improvement"
      THEN <<", crisp 4k detail, noise-free, high dynamic range, sharp textures, studio-grade retouching">>
      ELSE <<", modern editorial style, subtle color grading, perfect for a sales landing page hero banner">> )

\* editMap[editType]: an own property, else what Object.prototype holds under
\* that name, else undefined (None)
editMap(editType) ==
    CASE editType = "Style" ->
           Some("hero shot in a clean, modern style, studio lighting, high contrast, appetizing presentation")
      [] editType = "Background cleaning" ->
           Some("isolated on a clean, soft gradient background, no clutter, studio tabletop photography")
      [] editType = "Quality improvement" ->
           Some("ultra detailed, crisp focus, high-resolution, professional food photography lighting")
      [] editType = "constructor" -> Some("function Object() { [native code] }")
      [] editType = "toString" -> Some("function toString() { [native code] }")
      [] editType = "__proto__" -> Some("[object Object]")
      [] OTHER -> None

\* buildPrompt of the lookup-table script
buildPromptMap(food, editType) ==
    LET editDescription ==
          IF IsSome(editMap(editType))
          THEN The(editMap(editType))
          ELSE "professional food photography, sharp focus, soft studio lighting"
    IN  <<food, " photo, ", editDescription,
          ", perfect for an online sales site hero banner, shot on DSLR, 4k, realistic textures">>

buildPrompt(s, food, editType) ==
    IF s = "promptMap" THEN buildPromptMap(food, editType)
    ELSE buildPromptBranches(food, editType)


\* ------------------------------------------------------- results, errors
Ok(v) == [ok |-> TRUE, value |-> v]
Err(message) == [ok |-> FALSE, value |-> message]

\* ------------------------------------------------------------- requests
Bearer(apiKey) == <<"Bearer ">> \o apiKey

\* JSON.stringify({ inputs: text })
JsonInputs(text) == [kind |-> "json", inputs |-> text, file |-> None]

\* fetch(...) of callStyleGeneration
StyleRequest(apiKey, prompt) ==
    [url |-> HF_ENDPOINTS.style, method |-> "POST", auth |-> Bearer(apiKey),
     contentType |-> "application/json", accept |-> "image/png",
     body |-> JsonInputs(prompt)]

\* fetch(...) of callBackgroundRemoval
BackgroundRequest(apiKey, base64Image) ==
    [url |-> HF_ENDPOINTS.background, method |-> "POST", auth |-> Bearer(apiKey),
     contentType |-> "application/json", accept |-> "application/json",
     body |-> JsonInputs(base64Image)]

\* fetch(...) of callQualityImprovement
\* (QualityRequestDeclaredType: "Content-Type": imageFile.type, with no fallback)
QualityRequestDeclaredType(apiKey, imageFile) ==
    [url |-> HF_ENDPOINTS.quality, method |-> "POST", auth |-> Bearer(apiKey),
     contentType |-> imageFile.type, accept |-> "image/png",
     body |-> [kind |-> "raw", inputs |-> <<>>, file |-> Some(imageFile)]]
QualityRequest(apiKey, imageFile) ==
    [url |-> HF_ENDPOINTS.quality, method |-> "POST", auth |-> Bearer(apiKey),
     contentType |-> IF imageFile.type # "" THEN imageFile.type
                     ELSE "application/octet-stream",
     accept |-> "image/png",
     body |-> [kind |-> "raw", inputs |-> <<>>, file |-> Some(imageFile)]]

\* fetch(...) of generateImage, the same in app.js and in part_000
GenerateRequest(apiKey, prompt) ==
    [url |-> HF_ENDPOINT, method |-> "POST", auth |-> Bearer(apiKey),
     contentType |-> "application/json", accept |-> "image/png",
     body |-> JsonInputs(prompt)]

\* ---------------------------------------------------------- fileToBase64
\* base64 of the two photo contents of the model
Base64(bytes) == IF bytes = "AAAA" THEN "QUFBQQ==" ELSE "QkJCQg=="

\* what FileReader.readAsDataURL can deliver: a data URL, a string with no
\* comma, a result that is no string, or an error event
ReaderOutcomes == {"dataUrl", "noComma", "notString", "error"}

ReaderResult(file, outcome) ==
    IF outcome = "dataUrl"
    THEN <<"data:", file.type, ";base64", ",", Base64(file.bytes)>>
    ELSE <<"data:">>

fileToBase64(file, outcome) ==
    IF outcome = "error" THEN Err(<<"Failed to read image file.">>)
    ELSE IF outcome = "notString" THEN Err(<<"Unexpected FileReader result type.">>)
    ELSE LET result == ReaderResult(file, outcome)
             commaIndex == indexOf(result, ",")
         IN  IF commaIndex = 0 THEN Ok(result)
             ELSE Ok(sliceFrom(result, commaIndex + 1))

\* ------------------------------------------------- HTTP failure messages
\* const shortDetail = detail && detail.length > bound ? slice + ellipsis : detail
\* (shortDetailWhole: the detail passed on without the cut)
shortDetailWhole(detail, bound) == detail
shortDetail(detail, bound) ==
    IF detail # <<>> /\ Len(detail) > bound
    THEN sliceTo(detail, bound) \o <<Ellipsis>>
    ELSE detail

\* shortDetail ? `${baseMessage} Details: ${shortDetail}` : baseMessage
withDetails(baseMessage, short) ==
    IF short # <<>> THEN <<baseMessage, " Details: ">> \o short ELSE <<baseMessage>>

styleFailure(detail) ==
    withDetails("Style generation failed (SDXL). The model may be loading or your key may not have access.",
                shortDetail(detail, StyleDetailBound))

backgroundFailure(detail) ==
    withDetails("Background removal failed (RMBG-2.0). Check access to the model and try again.",
                shortDetail(detail, BackgroundDetailBound))

qualityFailure(detail) ==
    withDetails("Quality improvement failed (Real-ESRGAN). The model may not be available on the free Inference API.",
                shortDetail(detail, QualityDetailBound))

promptMapFailure(detail) ==
    withDetails("Generation failed. The model may be loading or your key may not have access.",
                shortDetail(detail, PromptMapDetailBound))

\* msgParts.filter(Boolean).join(" ") of app.js
textOnlyFailure(response, detail) ==
    LET short == shortDetail(detail, TextOnlyDetailBound)
    IN  <<"HF Inference error: ", response.status, " ", response.statusText, ".">>
        \o (IF short # <<>> THEN <<" ", "Details: ">> \o short ELSE <<>>)

\* ----------------------------------------------- segmentation responses
Scores == 0..MaxScore
ItemScores == {None} \cup {Some(n) : n \in Scores}
ItemMasks == {None, Some("m1"), Some("m2")}

\* a JSON null entry, and the object entries
NullItem == [obj |-> FALSE, score |-> None, mask |-> None]
Items == {NullItem} \cup [obj : {TRUE}, score : ItemScores, mask : ItemMasks]

NotArray == [isArray |-> FALSE, items |-> <<>>]
JsonArray(items) == [isArray |-> TRUE, items |-> items]
Jsons == {NotArray} \cup {JsonArray(s) : s \in UNION {[1..n -> Items] : n \in 0..MaxLen}}

\* a > b of JavaScript on two score fields: false when either is undefined
Greater(a, b) == IsSome(a) /\ IsSome(b) /\ The(a) > The(b)

\* the reducer: !acc || (item && item.score > acc.score) ? item : acc
\* (with >= the last of several equal scores would win)
GreaterOrEqual(a, b) == IsSome(a) /\ IsSome(b) /\ The(a) >= The(b)
reducerLastWins(acc, item) ==
    IF ~acc.obj \/ (item.obj /\ GreaterOrEqual(item.score, acc.score)) THEN item ELSE acc
reducer(acc, item) ==
    IF ~acc.obj \/ (item.obj /\ Greater(item.score, acc.score)) THEN item ELSE acc

RECURSIVE reduceFrom(_, _, _)
reduceFrom(data, i, acc) ==
    IF i > Len(data) THEN acc ELSE reduceFrom(data, i + 1, reducer(acc, data[i]))

\* data.reduce(reducer) with no initial value
reduce(data) == reduceFrom(data, 2, data[1])

\* const best: the entry the reduce selects, None when no reduce is reached
selectBest(data) ==
    IF ~data.isArray \/ Len(data.items) = 0 THEN None ELSE Some(reduce(data.items))

\* callBackgroundRemoval from `const data = await response.json()` on; a mask
\* left unchecked would be appended to the prefix as it is
decodeSegmentationUnchecked(data) ==
    IF ~data.isArray \/ Len(data.items) = 0
    THEN Err(<<"Background removal returned an empty result.">>)
    ELSE Ok(<<"data:image/png;base64,">> \o reduce(data.items).mask)
decodeSegmentation(data) ==
    IF ~data.isArray \/ Len(data.items) = 0
    THEN Err(<<"Background removal returned an empty result.">>)
    ELSE LET best == reduce(data.items)
         IN  IF ~best.obj \/ ~IsSome(best.mask)
             THEN Err(<<"Background removal response did not include a mask.">>)
             ELSE Ok(<<"data:image/png;base64,", The(best.mask)>>)

\* ------------------------------------------------------- server answers
Responses ==
    {[ok |-> TRUE, status |-> "200", statusText |-> "OK"],
     [ok |-> FALSE, status |-> "503", statusText |-> "Service Unavailable"]}

\* a rejection of fetch, text(), blob() or json(): an Error with or without text
Rejections == {<<"Failed to fetch">>, <<>>}

Blobs == {"png1", "png2"}

DetailChar(i) == IF i % 3 = 0 THEN "a" ELSE IF i % 3 = 1 THEN "b" ELSE "c"
Detail(n, k) == [i \in 1..n |-> DetailChar(i + k)]

\* lengths around each truncation bound, and the 500 characters of the spec
DetailLens ==
    {0, 1} \cup {StyleDetailBound + d : d \in (0 - MaxOver)..MaxOver}
           \cup {TextOnlyDetailBound + d : d \in (0 - MaxOver)..MaxOver}
           \cup {TextOnlyDetailBound + 200}
Details == {Detail(n, k) : n \in DetailLens, k \in 0..1}

\* the few answers the page flow is explored with
SampleDetails == {Detail(0, 0), Detail(1, 0), Detail(TextOnlyDetailBound + 1, 1)}

SampleJsons ==
    {NotArray, JsonArray(<<>>), JsonArray(<<NullItem>>),
     JsonArray(<<[obj |-> TRUE, score |-> Some(0), mask |-> Some("m1")]>>),
     JsonArray(<<[obj |-> TRUE, score |-> Some(0), mask |-> Some("m1")],
                 [obj |-> TRUE, score |-> Some(1), mask |-> None]>>)}

\* ------------------------------------------------------------ page state
VARIABLES
    script,        \* which of the three page scripts is loaded
    apiKeyInput,   \* apiKeyInput.value
    foodSelect,    \* foodSelect.value
    editSelect,    \* editSelect.value
    photoInput,    \* photoInput.files[0], None when no file is chosen
    generateBtn,   \* [disabled, label] of the Generate button
    outputArea,    \* what the output area shows
    handlers,      \* the invocations of handleGenerateClick suspended at an await
    done           \* the invocation that ended last, None while one is running

vars ==
    <<script, apiKeyInput, foodSelect, editSelect, photoInput, generateBtn,
      outputArea, handlers, done>>

\* ------------------------------------------------------------ output area
InitialOutput == [kind |-> "initial", text |-> <<>>, src |-> <<>>]

showLoading ==
    [kind |-> "loading", text |-> <<"Generation in progress...">>, src |-> <<>>]

showError(message) == [kind |-> "error", text |-> message, src |-> <<>>]

\* URL.createObjectURL(imageBlob) is the token pair "blob:", blob
showImageFromBlob(imageBlob, alt) ==
    [kind |-> "image", text |-> alt, src |-> <<"blob:", imageBlob>>]

showImageFromDataUrl(dataUrl, alt) == [kind |-> "image", text |-> alt, src |-> dataUrl]

\* ----------------------------------------------------------------- button
\* generateBtn.disabled = true; generateBtn.innerHTML = "<span>Creating...</span>"
loadingButtonUnlocked(btn) == [disabled |-> FALSE, label |-> "Creating..."]
loadingButton(btn) == [disabled |-> TRUE, label |-> "Creating..."]

\* the finally block
finallyButtonKeepsLabel(btn, originalLabel) == [disabled |-> FALSE, label |-> btn.label]
finallyButton(btn, originalLabel) == [disabled |-> FALSE, label |-> originalLabel]

\* ------------------------------------------------------------- validation
\* const apiKey = apiKeyInput.value.trim()
readApiKeyUntrimmed(value) == value
readApiKey(value) == trim(value)

\* if (!apiKey)
missingApiKey(apiKey) == apiKey = <<>>

\* the photo check, which only the three-model script makes
missingPhotoBackgroundOnly(s, editType, photoFile) ==
    s = "threeModel" /\ editType = "Background cleaning" /\ ~IsSome(photoFile)
missingPhoto(s, editType, photoFile) ==
    /\ s = "threeModel"
    /\ editType = "Background cleaning" \/ editType = "Quality improvement"
    /\ ~IsSome(photoFile)

ApiKeyMessage == <<"Please paste your Hugging Face API key before generating.">>
PhotoMessage(editType) ==
    <<"Please upload a food photo for \"", editType,
      "\". Style mode can work without a file.">>

\* ---------------------------------------------------------------- dispatch
\* which call the try block makes
callForBackgroundAsStyle(s, editType) ==
    IF s # "threeModel" THEN "generate"
    ELSE IF editType = "Quality improvement" THEN "quality"
    ELSE "style"
callFor(s, editType) ==
    IF s # "threeModel" THEN "generate"
    ELSE IF editType = "Style" THEN "style"
    ELSE IF editType = "Background cleaning" THEN "background"
    ELSE IF editType = "Quality improvement" THEN "quality"
    ELSE "fallback"

\* ---------------------------------------------------------------- handlers
NewHandler(apiKey, food, editType, photoFile) ==
    [apiKey |-> apiKey, food |-> food, editType |-> editType,
     photoFile |-> photoFile, prompt |-> <<>>, originalLabel |-> "",
     call |-> "none", pc |-> "validating", fetchCalls |-> 0, request |-> None,
     response |-> None, detail |-> <<>>, data |-> NotArray, thrown |-> None,
     readerResult |-> None, best |-> None, returned |-> None, outcome |-> "pending", errorsShown |-> 0,
     promise |-> "pending"]

\* fetch(url, options): the request leaves and the caller awaits the response
fetchTwice(h, request) ==
    [h EXCEPT !.pc = "fetching", !.fetchCalls = @ + 2, !.request = Some(request)]
fetch(h, request) ==
    [h EXCEPT !.pc = "fetching", !.fetchCalls = @ + 1, !.request = Some(request)]

\* rejection of the awaited call before it reaches an await of its own
throwNow(h, message) == [h EXCEPT !.pc = "thrown", !.thrown = Some(message)]

TypeErrorMessage == <<"TypeError">>

\* the try block up to its first suspension
startCall(h) ==
    CASE h.call \in {"style", "fallback"} -> fetch(h, StyleRequest(h.apiKey, h.prompt))
      [] h.call = "generate" -> fetch(h, GenerateRequest(h.apiKey, h.prompt))
      [] h.call = "quality" ->
           IF IsSome(h.photoFile)
           THEN fetch(h, QualityRequest(h.apiKey, The(h.photoFile)))
           ELSE throwNow(h, TypeErrorMessage)
      [] h.call = "background" ->
           IF IsSome(h.photoFile) THEN [h EXCEPT !.pc = "reading"]
           ELSE throwNow(h, TypeErrorMessage)

\* handleGenerateClick from buildPrompt to the first await
begin(s, h, label) ==
    startCall([h EXCEPT !.prompt = buildPrompt(s, h.food, h.editType),
                        !.originalLabel = label,
                        !.call = callFor(s, h.editType)])

\* the catch block: what is shown, and whether the error leaves the handler
\* (catchErrorLogsOnly: console.error(error) and nothing else)
catchErrorLogsOnly(s, message) ==
    [text |-> <<"Something went wrong">>, shown |-> FALSE, rethrown |-> FALSE]
catchErrorRethrows(s, message) ==
    [text |-> <<"Something went wrong">>, shown |-> FALSE, rethrown |-> TRUE]
catchError(s, message) ==
    [text |-> IF s = "textOnly"
              THEN IF message # <<>> THEN message
                   ELSE <<"Something went wrong while generating the image.">>
              ELSE IF s = "threeModel"
              THEN <<"Something went wrong while processing the image. Please check your API key, model access and try again.">>
              ELSE <<"Something went wrong while generating the image. Please check your API key, model access, and try again.">>,
     shown |-> TRUE, rethrown |-> FALSE]

\* alt text of the image shown on success
altText(s, h) ==
    CASE s = "textOnly" ->
           <<"Generated ", h.food, " image (", h.editType, ") with SDXL. Prompt: ">>
           \o h.prompt
      [] s = "promptMap" -> <<"Generated food image based on prompt: ">> \o h.prompt
      [] h.call = "style" ->
           <<"Styled food image for ", h.food, " using SDXL based on prompt: ">>
           \o h.prompt
      [] h.call = "background" ->
           <<"Background mask for ", h.food, " created with RMBG-2.0">>
      [] h.call = "quality" ->
           <<"Quality-improved ", h.food, " photo upscaled by Real-ESRGAN">>
      [] OTHER -> <<"Generated food image for ", h.food, " (fallback style mode)">>

\* the message of the Error thrown on a response that is not ok
httpFailure(s, h, detail) ==
    CASE s = "textOnly" -> textOnlyFailure(The(h.response), detail)
      [] s = "promptMap" -> promptMapFailure(detail)
      [] h.call = "background" -> backgroundFailure(detail)
      [] h.call = "quality" -> qualityFailure(detail)
      [] OTHER -> styleFailure(detail)

Remove(seq, i) == SubSeq(seq, 1, i - 1) \o SubSeq(seq, i + 1, Len(seq))

\* ------------------------------------------------------ ends of a handler
\* the finally block, after which the invocation h is over
Finally(rest, h) ==
    /\ generateBtn' = finallyButton(generateBtn, h.originalLabel)
    /\ handlers' = rest
    /\ done' = Some([h EXCEPT !.pc = "done"])

\* catch (error) { console.error(error); showError(...) } finally { ... }
Catch(rest, h, message) ==
    LET c == catchError(script, message)
    IN  /\ outputArea' = IF c.shown THEN showError(c.text) ELSE outputArea
        /\ Finally(rest, [h EXCEPT !.thrown = Some(message),
                                   !.outcome = "failed",
                                   !.errorsShown = @ + (IF c.shown THEN 1 ELSE 0),
                                   !.promise = IF c.rethrown THEN "rejected"
                                               ELSE "fulfilled"])

\* the image is shown, then finally
Succeed(rest, h, shown, value) ==
    /\ outputArea' = shown
    /\ Finally(rest, [h EXCEPT !.returned = Some(value),
                               !.outcome = "success",
                               !.promise = "fulfilled"])

\* showError(...); return;  before the button is touched
Reject(h, message) ==
    /\ outputArea' = showError(message)
    /\ done' = Some([h EXCEPT !.pc = "done", !.outcome = "validation",
                              !.errorsShown = 1, !.promise = "fulfilled"])
    /\ UNCHANGED <<generateBtn, handlers>>

\* handleGenerateClick up to its first await.  A call that throws before it
\* awaits anything is caught in the microtask that follows, before any other
\* event is served, so its catch and finally belong to the same step.
handleGenerateClick(value, food, editType, photoFile) ==
    LET apiKey == readApiKey(value)
        h == NewHandler(apiKey, food, editType, photoFile)
    IN  IF missingApiKey(apiKey) THEN Reject(h, ApiKeyMessage)
        ELSE IF missingPhoto(script, editType, photoFile)
        THEN Reject(h, PhotoMessage(editType))
        ELSE LET b == begin(script, h, generateBtn.label)
             IN  IF b.pc = "thrown" THEN Catch(handlers, b, The(b.thrown))
                 ELSE /\ outputArea' = showLoading
                      /\ generateBtn' = loadingButton(generateBtn)
                      /\ handlers' = Append(handlers, b)
                      /\ done' = None

\* ------------------------------------------------------------------ actions
\* The user fills the form and clicks Generate.  A disabled button dispatches
\* no click event, so the listener runs only while the button is enabled.
Click(value, food, editType, photoFile) ==
    /\ ~generateBtn.disabled
    /\ Len(handlers) < MaxHandlers
    /\ apiKeyInput' = value
    /\ foodSelect' = food
    /\ editSelect' = editType
    /\ photoInput' = photoFile
    /\ handleGenerateClick(value, food, editType, photoFile)
    /\ UNCHANGED script

\* fileToBase64 settles (callBackgroundRemoval, first await)
ReadSettle(i, outcome) ==
    LET h == handlers[i]
        r == fileToBase64(The(h.photoFile), outcome)
        read == [h EXCEPT !.readerResult = Some(ReaderResult(The(h.photoFile), outcome))]
    IN  /\ h.pc = "reading"
        /\ IF r.ok
           THEN /\ handlers' = [handlers EXCEPT
                                  ![i] = fetch(read, BackgroundRequest(h.apiKey, r.value))]
                /\ UNCHANGED <<generateBtn, outputArea, done>>
           ELSE Catch(Remove(handlers, i), h, r.value)
        /\ UNCHANGED <<script, apiKeyInput, foodSelect, editSelect, photoInput>>

\* fetch resolves with a response
FetchResolve(i, response) ==
    LET h == handlers[i]
    IN  /\ h.pc = "fetching"
        /\ handlers' = [handlers EXCEPT
                          ![i] = [h EXCEPT !.pc = "body", !.response = Some(response)]]
        /\ UNCHANGED <<script, apiKeyInput, foodSelect, editSelect, photoInput,
                       generateBtn, outputArea, done>>

\* fetch rejects (network failure)
FetchReject(i, message) ==
    LET h == handlers[i]
    IN  /\ h.pc = "fetching"
        /\ Catch(Remove(handlers, i), h, message)
        /\ UNCHANGED <<script, apiKeyInput, foodSelect, editSelect, photoInput>>

\* response.text() of a response that is not ok resolves
TextResolve(i, detail) ==
    LET h == handlers[i]
    IN  /\ h.pc = "body"
        /\ ~The(h.response).ok
        /\ Catch(Remove(handlers, i), [h EXCEPT !.detail = detail],
                 httpFailure(script, h, detail))
        /\ UNCHANGED <<script, apiKeyInput, foodSelect, editSelect, photoInput>>

\* response.text() rejects: the rejection is swallowed, the detail stays ""
TextReject(i) ==
    LET h == handlers[i]
    IN  /\ h.pc = "body"
        /\ ~The(h.response).ok
        /\ Catch(Remove(handlers, i), h, httpFailure(script, h, <<>>))
        /\ UNCHANGED <<script, apiKeyInput, foodSelect, editSelect, photoInput>>

\* response.blob() resolves
BlobResolve(i, blob) ==
    LET h == handlers[i]
    IN  /\ h.pc = "body"
        /\ The(h.response).ok
        /\ h.call # "background"
        /\ Succeed(Remove(handlers, i), h,
                   showImageFromBlob(blob, altText(script, h)), <<blob>>)
        /\ UNCHANGED <<script, apiKeyInput, foodSelect, editSelect, photoInput>>

\* response.blob() or response.json() rejects
BodyReject(i, message) ==
    LET h == handlers[i]
    IN  /\ h.pc = "body"
        /\ The(h.response).ok
        /\ Catch(Remove(handlers, i), h, message)
        /\ UNCHANGED <<script, apiKeyInput, foodSelect, editSelect, photoInput>>

\* response.json() resolves (callBackgroundRemoval)
JsonResolve(i, data) ==
    LET h == [handlers[i] EXCEPT !.data = data, !.best = selectBest(data)]
        r == decodeSegmentation(data)
    IN  /\ h.pc = "body"
        /\ The(h.response).ok
        /\ h.call = "background"
        /\ IF r.ok
           THEN Succeed(Remove(handlers, i), h,
                        showImageFromDataUrl(r.value, altText(script, h)), r.value)
           ELSE Catch(Remove(handlers, i), h, r.value)
        /\ UNCHANGED <<script, apiKeyInput, foodSelect, editSelect, photoInput>>

\* ------------------------------------------------------------ the page
Init ==
    /\ script \in Scripts
    /\ apiKeyInput = <<>>
    /\ foodSelect = "Pizza"
    /\ editSelect = "Style"
    /\ photoInput = None
    /\ generateBtn \in [disabled : {FALSE}, label : Labels]
    /\ outputArea = InitialOutput
    /\ handlers = <<>>
    /\ done = None

BodySettles ==
    \E i \in 1..Len(handlers) :
        \/ \E detail \in SampleDetails : TextResolve(i, detail)
        \/ TextReject(i)
        \/ \E blob \in Blobs : BlobResolve(i, blob)
        \/ \E message \in Rejections : BodyReject(i, message)
        \/ \E data \in SampleJsons : JsonResolve(i, data)

Next ==
    \/ \E value \in Keys, food \in Foods, editType \in EditTypes, photoFile \in Photos :
           Click(value, food, editType, photoFile)
    \/ \E i \in 1..Len(handlers), outcome \in ReaderOutcomes : ReadSettle(i, outcome)
    \/ \E i \in 1..Len(handlers), response \in Responses : FetchResolve(i, response)
    \/ \E i \in 1..Len(handlers), message \in Rejections : FetchReject(i, message)
    \/ BodySettles

Spec == Init /\ [][Next]_vars

\* Once the response has arrived, reading its body ends (the browser settles
\* text(), blob() and json()), and the continuation of the handler then runs.
FairSpec == Spec /\ WF_vars(BodySettles)

\* --------------------------------------- the decoding steps on their own
\* One invocation whose response has just arrived, for every script and edit
\* mode; the body is then drawn from the whole bounded domain.
UnitPhoto == Some([type |-> "image/png", bytes |-> "BBBB"])

AwaitingBody(s, editType, response) ==
    LET h0 == begin(s, NewHandler(<<"k">>, "Pizza", editType, UnitPhoto), "Create Image")
        h1 == IF h0.pc = "reading"
              THEN fetch([h0 EXCEPT !.readerResult =
                                   Some(ReaderResult(The(h0.photoFile), "dataUrl"))],
                         BackgroundRequest(h0.apiKey,
                                 fileToBase64(The(h0.photoFile), "dataUrl").value))
              ELSE h0
    IN  [h1 EXCEPT !.pc = "body", !.response = Some(response)]

UnitInit ==
    \E s \in Scripts, editType \in EditTypes, response \in Responses :
        /\ response.ok => callFor(s, editType) = "background"
        /\ script = s
        /\ apiKeyInput = <<"k">>
        /\ foodSelect = "Pizza"
        /\ editSelect = editType
        /\ photoInput = UnitPhoto
        /\ generateBtn = loadingButton([disabled |-> FALSE, label |-> "Create Image"])
        /\ outputArea = showLoading
        /\ handlers = <<AwaitingBody(s, editType, response)>>
        /\ done = None

UnitNext ==
    \E i \in 1..Len(handlers) :
        \/ \E detail \in Details : TextResolve(i, detail)
        \/ \E data \in Jsons : JsonResolve(i, data)

UnitSpec == UnitInit /\ [][UnitNext]_vars

\* ================================================================ claims
\* the key is empty after trimming: it holds nothing but spaces
Blank(value) == \A i \in 1..Len(value) : value[i] = " "

NeedsPhoto(editType) ==
    editType = "Background cleaning" \/ editType = "Quality improvement"

\* the last click ended at a validation error: nothing was built or sent
StoppedAtValidation ==
    /\ handlers = <<>>
    /\ IsSome(done)
    /\ The(done).outcome = "validation"
    /\ The(done).fetchCalls = 0
    /\ The(done).request = None
    /\ outputArea.kind = "error"

\* the last click went on to send its request
Proceeded ==
    \/ /\ handlers # <<>>
       /\ \A i \in 1..Len(handlers) :
              handlers[i].fetchCalls = 1 /\ IsSome(handlers[i].request)
    \/ /\ handlers = <<>>
       /\ IsSome(done)
       /\ The(done).outcome \in {"success", "failed"}
       /\ The(done).fetchCalls = 1
       /\ IsSome(The(done).request)

\* C1: in each of the three scripts, a click with an API key that is empty
\* after trimming (whitespace-only keys included) ends with the API key
\* validation message and has issued no fetch, whatever the food, the edit
\* mode and the photo are; no handler is left running.
C1_BlankKeyNoFetch ==
    Blank(apiKeyInput) =>
        /\ handlers = <<>>
        /\ IsSome(done) =>
              /\ StoppedAtValidation
              /\ outputArea = showError(ApiKeyMessage)

C1_Witness ==
    /\ apiKeyInput = <<" ">>
    /\ editSelect = "Background cleaning"
    /\ IsSome(photoInput)
    /\ StoppedAtValidation

\* C2, as stated: with a non-empty key, Background cleaning or Quality
\* improvement without a source image ends handleGenerateClick with a
\* validation error and no request, in whichever script runs.
C2_Original ==
    (~Blank(apiKeyInput) /\ NeedsPhoto(editSelect) /\ photoInput = None)
        => StoppedAtValidation

\* C2, amended: the photo check is made by the three-model script only.  With
\* a non-empty key and no source image, that script stops Background cleaning
\* and Quality improvement at a validation error with no request, and lets
\* Style (and any other mode) send its request; the two text-only scripts send
\* their request in every mode.
C2_PhotoCheckThreeModelOnly ==
    (~Blank(apiKeyInput) /\ photoInput = None) =>
        IF script = "threeModel" /\ NeedsPhoto(editSelect)
        THEN StoppedAtValidation /\ outputArea = showError(PhotoMessage(editSelect))
        ELSE Proceeded

C2_Witness ==
    /\ script = "threeModel"
    /\ ~Blank(apiKeyInput)
    /\ editSelect = "Quality improvement"
    /\ photoInput = None
    /\ StoppedAtValidation

FileReadErrors ==
    {<<"Failed to read image file.">>, <<"Unexpected FileReader result type.">>}

\* C3, as stated: every invocation that passes validation issues exactly one
\* request.
C3_Original ==
    (IsSome(done) /\ The(done).outcome # "validation") => The(done).fetchCalls = 1

\* C3, amended: an invocation that passes validation never issues a second
\* request (no retry after a response that is not ok, a network error or a
\* malformed segmentation answer), and it issues exactly one unless, in
\* Background cleaning of the three-model script, reading the photo fails
\* before the request is built: then it issues none.
C3_AtMostOneRequest ==
    /\ \A i \in 1..Len(handlers) :
          /\ handlers[i].fetchCalls <= 1
          /\ handlers[i].pc \in {"fetching", "body"} => handlers[i].fetchCalls = 1
    /\ (IsSome(done) /\ The(done).outcome # "validation") =>
          \/ The(done).fetchCalls = 1
          \/ /\ The(done).fetchCalls = 0
             /\ script = "threeModel"
             /\ The(done).editType = "Background cleaning"
             /\ The(done).outcome = "failed"
             /\ The(done).thrown \in {Some(m) : m \in FileReadErrors}

C3_Witness ==
    /\ IsSome(done)
    /\ The(done).outcome = "failed"
    /\ IsSome(The(done).response)
    /\ ~The(The(done).response).ok
    /\ The(done).fetchCalls = 1

InFlight == {i \in 1..Len(handlers) : handlers[i].pc \in {"fetching", "body"}}

\* C4: at most one request is in flight at any time, at most one invocation
\* is between passing validation and presenting its result, and the Generate
\* button is disabled for as long as one is.
C4_OneRequestOutstanding ==
    /\ Cardinality(InFlight) <= 1
    /\ Len(handlers) <= 1
    /\ handlers # <<>> => generateBtn.disabled

C4_Witness ==
    /\ Len(handlers) = 1
    /\ handlers[1].pc = "body"
    /\ generateBtn.disabled

HandlerStarts == handlers = <<>> /\ handlers' # <<>>
HandlerRuns == handlers # <<>> /\ handlers' # <<>>
HandlerEnds == handlers # <<>> /\ handlers' = <<>>

C5_Step ==
    /\ HandlerStarts =>
          /\ handlers'[1].originalLabel = generateBtn.label
          /\ generateBtn'.disabled
          /\ outputArea'.kind = "loading"
    /\ HandlerRuns => handlers'[1].originalLabel = handlers[1].originalLabel
    /\ HandlerEnds =>
          /\ IsSome(done')
          /\ The(done').outcome \in {"success", "failed"}
          /\ outputArea'.kind =
                IF The(done').outcome = "success" THEN "image" ELSE "error"
          /\ ~generateBtn'.disabled
          /\ generateBtn'.label = handlers[1].originalLabel

ResponseArrived == \E i \in 1..Len(handlers) : handlers[i].pc = "body"
Idle == handlers = <<>> /\ ~generateBtn.disabled

\* C5: an action that passes validation disables the button and shows the
\* loading state, and when it ends it has reached Success (an image is shown)
\* or Failed (an error is shown) and is back at Idle with the button enabled
\* and its label the one it had before the action; once the response has
\* arrived the action does end.
C5_ActionCycle == [][C5_Step]_vars /\ (ResponseArrived ~> Idle)

C5_Witness ==
    /\ Idle
    /\ IsSome(done)
    /\ The(done).outcome = "failed"
    /\ IsSome(The(done).response)
    /\ generateBtn.label = "Generate"
    /\ The(done).originalLabel = "Generate"

ExpectedEndpoint(editType) ==
    IF editType = "Background cleaning"
    THEN "https://router.huggingface.co/hf-inference/models/briaai/RMBG-2.0"
    ELSE IF editType = "Quality improvement"
    THEN "https://router.huggingface.co/hf-inference/models/ai-forever/Real-ESRGAN"
    ELSE "https://router.huggingface.co/hf-inference/models/stabilityai/stable-diffusion-xl-base-1.0"

SentTo(h) == IsSome(h.request) => The(h.request).url = ExpectedEndpoint(h.editType)

\* C6: in the three-model script the endpoint a request goes to is decided by
\* the edit mode alone: Style goes to SDXL, Background cleaning to RMBG-2.0,
\* Quality improvement to Real-ESRGAN, three different endpoints, and any
\* other mode value goes to the Style endpoint and throws nothing on the way.
C6_EndpointByMode ==
    script = "threeModel" =>
        /\ \A i \in 1..Len(handlers) : SentTo(handlers[i])
        /\ IsSome(done) => SentTo(The(done))
        /\ (IsSome(done) /\ The(done).outcome # "validation"
              /\ The(done).editType \notin {"Background cleaning", "Quality improvement"})
              => The(done).fetchCalls = 1
        /\ Cardinality({ExpectedEndpoint(e) : e \in EditTypes}) = 3

C6_Witness ==
    /\ script = "threeModel"
    /\ IsSome(done)
    /\ The(done).editType = "Sepia"
    /\ The(done).outcome = "success"
    /\ The(The(done).request).url = HF_ENDPOINTS.style

\* C7: an invocation that ends has caught every error raised on its way: its
\* promise is fulfilled, never rejected, and when it ended at a validation
\* failure or at a thrown error (photo read, network, response not ok, empty
\* or mask-less segmentation answer) showError ran exactly once and the output
\* area shows that one non-empty message.
C7_ErrorsCaught ==
    IsSome(done) =>
        /\ The(done).promise = "fulfilled"
        /\ The(done).outcome \in {"validation", "success", "failed"}
        /\ The(done).outcome = "failed" <=> IsSome(The(done).thrown)
        /\ The(done).outcome \in {"validation", "failed"} =>
              /\ The(done).errorsShown = 1
              /\ outputArea.kind = "error"
              /\ outputArea.text # <<>>
        /\ The(done).outcome = "success" =>
              The(done).errorsShown = 0 /\ outputArea.kind = "image"

C7_Witness ==
    /\ IsSome(done)
    /\ The(done).thrown = Some(<<"Background removal response did not include a mask.">>)
    /\ The(done).promise = "fulfilled"
    /\ outputArea.kind = "error"

\* every entry is an object that carries a numeric score
Candidates(items) ==
    \A i \in 1..Len(items) : items[i].obj /\ IsSome(items[i].score)

\* the first position that holds the greatest score
FirstMax(items) ==
    CHOOSE i \in 1..Len(items) :
        /\ \A j \in 1..Len(items) : The(items[j].score) <= The(items[i].score)
        /\ \A j \in 1..(i - 1) : The(items[j].score) < The(items[i].score)

DecodedCandidates ==
    /\ IsSome(done)
    /\ The(done).call = "background"
    /\ The(The(done).response).ok
    /\ The(done).data.isArray
    /\ Len(The(done).data.items) > 0
    /\ Candidates(The(done).data.items)

\* C8: for every non-empty array of candidates (objects with a numeric score)
\* callBackgroundRemoval selects the entry with the greatest score, wherever
\* it stands in the array, and the first such entry when several share it.
C8_SelectsFirstMaximum ==
    DecodedCandidates =>
        The(done).best = Some(The(done).data.items[FirstMax(The(done).data.items)])

C8_Witness ==
    /\ DecodedCandidates
    /\ Len(The(done).data.items) = 3
    /\ The(done).data.items[1].score = Some(0)
    /\ The(done).data.items[2] = [obj |-> TRUE, score |-> Some(2), mask |-> Some("m1")]
    /\ The(done).data.items[3] = [obj |-> TRUE, score |-> Some(2), mask |-> Some("m2")]
    /\ The(done).best = Some(The(done).data.items[2])

EmptyResultMessage == <<"Background removal returned an empty result.">>
MissingMaskMessage == <<"Background removal response did not include a mask.">>

\* C9: on an ok segmentation response callBackgroundRemoval throws the
\* empty-result error for an empty array, throws the missing-mask error when
\* the greatest-score candidate has no mask, and otherwise returns the data
\* URL of that candidate's mask; on the two failing inputs it returns nothing.
C9_EmptyAndMissingMask ==
    (IsSome(done) /\ The(done).call = "background" /\ The(The(done).response).ok
       /\ The(done).data.isArray) =>
        LET items == The(done).data.items
        IN  IF Len(items) = 0
            THEN The(done).thrown = Some(EmptyResultMessage) /\ The(done).returned = None
            ELSE Candidates(items) =>
                   IF items[FirstMax(items)].mask = None
                   THEN /\ The(done).thrown = Some(MissingMaskMessage)
                        /\ The(done).returned = None
                   ELSE /\ The(done).thrown = None
                        /\ The(done).returned =
                              Some(<<"data:image/png;base64,",
                                     The(items[FirstMax(items)].mask)>>)

C9_Witness ==
    /\ DecodedCandidates
    /\ Len(The(done).data.items) = 2
    /\ The(done).data.items[1] = [obj |-> TRUE, score |-> Some(1), mask |-> Some("m1")]
    /\ The(done).data.items[2] = [obj |-> TRUE, score |-> Some(2), mask |-> None]
    /\ The(done).thrown = Some(MissingMaskMessage)
    /\ The(done).returned = None

DetailChars == {"a", "b", "c"}
Tail2(s, n) == SubSeq(s, Len(s) - n + 1, Len(s))
Front(s, n) == SubSeq(s, 1, Len(s) - n)
NoDetailIn(s) == \A i \in 1..Len(s) : s[i] \notin DetailChars /\ s[i] # Ellipsis

\* C10: on a response that is not ok, a detail longer than the bound (300 in
\* app.js, 160 elsewhere) appears in the failure message as exactly its first
\* bound characters followed by the ellipsis, and the whole detail does not
\* appear; a detail no longer than the bound appears whole with no ellipsis.
C10_DetailTruncated ==
    (IsSome(done) /\ IsSome(The(done).response) /\ ~The(The(done).response).ok) =>
        LET bound == IF script = "textOnly" THEN 300 ELSE 160
            detail == The(done).detail
            message == The(The(done).thrown)
        IN  IF Len(detail) > bound
            THEN /\ Tail2(message, bound + 1) = SubSeq(detail, 1, bound) \o <<Ellipsis>>
                 /\ NoDetailIn(Front(message, bound + 1))
                 /\ ~Contains(message, detail)
            ELSE /\ Tail2(message, Len(detail)) = detail
                 /\ NoDetailIn(Front(message, Len(detail)))

C10_Witness ==
    /\ IsSome(done)
    /\ script = "textOnly"
    /\ ~The(The(done).response).ok
    /\ Len(The(done).detail) = 500
    /\ Len(The(The(done).thrown)) = 5 + 2 + 300 + 1
    /\ outputArea.text = The(The(done).thrown)

\* ------------------------------------------- buildPrompt on its own
\* The page is loaded and clicked once with any food text and any edit value,
\* names that Object.prototype holds and the empty string included.
PromptFoods == Foods \cup {""}
PromptEditTypes == EditTypes \cup {"constructor", "toString", "__proto__", ""}

PromptNext ==
    \E value \in Keys, food \in PromptFoods, editType \in PromptEditTypes,
       photoFile \in Photos :
        Click(value, food, editType, photoFile)

PromptSpec == Init /\ [][PromptNext]_vars

\* the clause the claim expects for an edit value, per script
ExpectedClause(s, editType) ==
    IF s = "promptMap"
    THEN CASE editType = "Style" ->
                "hero shot in a clean, modern style, studio lighting, high contrast, appetizing presentation"
           [] editType = "Background cleaning" ->
                "isolated on a clean, soft gradient background, no clutter, studio tabletop photography"
           [] editType = "Quality improvement" ->
                "ultra detailed, crisp focus, high-resolution, professional food photography lighting"
           [] OTHER -> "professional food photography, sharp focus, soft studio lighting"
    ELSE CASE editType = "Background cleaning" ->
                ", isolated on a clean soft gradient background, no clutter, product catalog look, web shop ready"
           [] editType = "Quality improvement" ->
                ", crisp 4k detail, noise-free, high dynamic range, sharp textures, studio-grade retouching"
           [] OTHER ->
                ", modern editorial style, subtle color grading, perfect for a sales landing page hero banner"

PromptAsClaimed(h) ==
    /\ h.prompt # <<>>
    /\ h.thrown = None
    /\ \E i \in 1..Len(h.prompt) : h.prompt[i] = h.food
    /\ \E i \in 1..Len(h.prompt) : h.prompt[i] = ExpectedClause(script, h.editType)

\* C11: for every food text and every edit value buildPrompt throws nothing
\* and returns a non-empty prompt that holds the food text verbatim, with the
\* mode clause for exactly Style, Background cleaning and Quality improvement
\* and the generic fallback clause for every other edit value, "constructor",
\* "toString" and "__proto__" in the lookup-table script included.
C11_PromptTotalWithFallback ==
    \A i \in 1..Len(handlers) : PromptAsClaimed(handlers[i])

\* base64 of the photo contents, as a table of its own
ExpectedBase64(bytes) ==
    CASE bytes = "AAAA" -> "QUFBQQ==" [] bytes = "BBBB" -> "QkJCQg=="

Disjoint(s, t) == \A i \in 1..Len(s), j \in 1..Len(t) : s[i] # t[j]

\* the body and Content-Type of the request h has sent, per edit mode
BodyByMode(h) ==
    LET request == The(h.request)
        body == request.body
    IN  IF script = "threeModel" /\ h.editType = "Background cleaning"
        THEN /\ body.kind = "json"
             /\ body.file = None
             /\ request.contentType = "application/json"
             /\ IsSome(h.readerResult)
             /\ IF \E i \in 1..Len(The(h.readerResult)) : The(h.readerResult)[i] = ","
                THEN body.inputs = <<ExpectedBase64(The(h.photoFile).bytes)>>
                ELSE body.inputs = The(h.readerResult)
             /\ Disjoint(body.inputs, h.prompt)
        ELSE IF script = "threeModel" /\ h.editType = "Quality improvement"
        THEN /\ body.kind = "raw"
             /\ body.file = h.photoFile
             /\ body.inputs = <<>>
             /\ request.contentType =
                   IF The(h.photoFile).type = "" THEN "application/octet-stream"
                   ELSE The(h.photoFile).type
        ELSE IF ~NeedsPhoto(h.editType)
        THEN /\ body.kind = "json"
             /\ body.inputs = h.prompt
             /\ body.file = None
             /\ request.contentType = "application/json"
        ELSE TRUE

\* C12: in the three-model script a Background cleaning request carries the
\* JSON envelope {inputs: base64 of the photo} (what follows the first comma
\* of the data URL the reader delivers) and no part of the prompt; a Quality
\* improvement request carries the photo itself with Content-Type the photo's
\* declared type, or application/octet-stream when that type is empty; in
\* Style and any unknown mode the request carries {inputs: prompt} as JSON and
\* a supplied photo is not part of it.
C12_BodyByMode ==
    /\ \A i \in 1..Len(handlers) :
          IsSome(handlers[i].request) => BodyByMode(handlers[i])
    /\ (IsSome(done) /\ IsSome(The(done).request)) => BodyByMode(The(done))

C12_Witness ==
    /\ script = "threeModel"
    /\ Len(handlers) = 1
    /\ handlers[1].editType = "Quality improvement"
    /\ handlers[1].pc = "fetching"
    /\ The(handlers[1].photoFile).type = ""
    /\ The(handlers[1].request).contentType = "application/octet-stream"
    /\ The(handlers[1].request).body.file = handlers[1].photoFile

\* C13: the "Generation in progress" status is shown exactly while an
\* invocation that passed validation has not yet presented its result: once
\* no handler is running (it ended at a validation failure, a success or a
\* caught error, or none has run yet) the output area shows its initial
\* content, an error message or an image, never the loading status.
C13_LoadingOnlyWhileRunning ==
    /\ handlers = <<>> => outputArea.kind \in {"initial", "error", "image"}
    /\ handlers # <<>> => outputArea = showLoading
    /\ IsSome(done) => outputArea.kind \in {"error", "image"}

C13_Witness ==
    /\ handlers = <<>>
    /\ IsSome(done)
    /\ The(done).outcome = "failed"
    /\ The(done).response = None
    /\ The(done).fetchCalls = 1
    /\ outputArea.kind = "error"
    /\ ~generateBtn.disabled

=============================================================================
